---- MODULE Spec2Model ----
(***************************************************************************)
(* A model of create_odt_ref_doc.py: the script builds an odfpy document   *)
(* (a tree of elements under doc.styles, doc.automaticstyles,              *)
(* doc.masterstyles and doc.text), saves it and prints a confirmation.     *)
(*                                                                         *)
(* The script is straight-line code.  It is modelled as the sequence of    *)
(* its statements (the bodies of its helper functions inlined at each      *)
(* call) run by a small-step interpreter: one action per kind of           *)
(* statement.  The heap holds every element ever constructed, by identity. *)
(***************************************************************************)
EXTENDS Integers, Sequences, FiniteSets

VARIABLES
    prog,      \* the statements being run (fixed during a run)
    pc,        \* index of the next statement of prog
    env,       \* local variables: name -> element id
    heap,      \* every element constructed so far: id -> element
    calls,     \* history: the helper calls made, <<helper, name>>
    appends,   \* history: the addElement calls made, <<parent id, child id>>
    created,   \* history: the constructor calls made, <<id, text given>>
    arg,       \* the argument create_odt_ref_doc was called with (NONE: absent)
    filename,  \* the parameter filename
    fs,        \* names of the files written
    stdout,    \* lines printed
    saves,     \* number of times doc.save was entered
    status     \* "running", "done" (returned) or "raised" (exception propagated)

vars == <<prog, pc, env, heap, calls, appends, created, arg, filename, fs,
          stdout, saves, status>>

\* Python's None, for an absent keyword argument or attribute.
NONE == "$None"

(***************************************************************************)
(* Statements.                                                             *)
(***************************************************************************)
Stmt(op, var, tag, name, family, style, text, attrs, parent, child, line) ==
    [op |-> op, var |-> var, tag |-> tag, name |-> name, family |-> family,
     style |-> style, text |-> text, attrs |-> attrs, parent |-> parent,
     child |-> child, line |-> line]

\* var = Tag(name=..., family=..., stylename=<variable style>, text=..., **attrs)
New(var, tag, name, family, style, text, attrs, line) ==
    Stmt("new", var, tag, name, family, style, text, attrs, NONE, NONE, line)

\* parent.addElement(child)
Add(parent, child, line) ==
    Stmt("add", NONE, NONE, NONE, NONE, NONE, NONE, {}, parent, child, line)

\* parent.addElement(Tag(stylename=<variable style>, text=...))
AddNew(parent, tag, style, text, line) ==
    Stmt("add_new", NONE, tag, NONE, NONE, style, text, {}, parent, NONE, line)

\* entry into a helper function, its parameter bound to name
Call(fn, name, line) ==
    Stmt("call", NONE, fn, name, NONE, NONE, NONE, {}, NONE, NONE, line)

\* var = <the helper's return value, its local variable child>
Ret(var, child, line) ==
    Stmt("ret", var, NONE, NONE, NONE, NONE, NONE, {}, NONE, child, line)

\* doc.save(filename, addsuffix)
Save(addsuffix, line) ==
    Stmt("save", NONE, NONE, NONE, NONE, NONE, NONE, {<<"addsuffix", addsuffix>>},
         NONE, NONE, line)

\* print(f"Created {filename} successfully.")
PrintCreated(line) ==
    Stmt("print", NONE, NONE, NONE, NONE, NONE, NONE, {}, NONE, NONE, line)

(***************************************************************************)
(* The helper functions, as the statements one call of each runs.          *)
(***************************************************************************)
\* make_parastyle without doc.styles.addElement(st)
make_parastyle_noreg(ret, name, line) ==
    << Call("make_parastyle", name, line),
       New("st", "Style", name, "paragraph", NONE, NONE, {}, 29),
       Ret(ret, "st", 31) >>

\* lines 27-31
make_parastyle(ret, name, line) ==
    << Call("make_parastyle", name, line),
       New("st", "Style", name, "paragraph", NONE, NONE, {}, 29),
       Add("doc.styles", "st", 30),
       Ret(ret, "st", 31) >>

\* lines 73-77
make_charstyle(ret, name, line) ==
    << Call("make_charstyle", name, line),
       New("st", "Style", name, "text", NONE, NONE, {}, 75),
       Add("doc.styles", "st", 76),
       Ret(ret, "st", 77) >>

\* make_framestyle without doc.styles.addElement(st)
make_framestyle_noreg(ret, name, line) ==
    << Call("make_framestyle", name, line),
       New("st", "Style", name, "graphic", NONE, NONE, {}, 214),
       Ret(ret, "st", 216) >>

\* lines 212-216
make_framestyle(ret, name, line) ==
    << Call("make_framestyle", name, line),
       New("st", "Style", name, "graphic", NONE, NONE, {}, 214),
       Add("doc.styles", "st", 215),
       Ret(ret, "st", 216) >>

\* lines 239-246
make_pagestyle(name, line) ==
    << Call("make_pagestyle", name, line),
       New("pl", "PageLayout", name \o "_Layout", NONE, NONE, NONE, {}, 241),
       Add("doc.automaticstyles", "pl", 242),
       New("plprop", "PageLayoutProperties", NONE, NONE, NONE, NONE,
           {<<"margin", "2cm">>}, 243),
       Add("pl", "plprop", 244),
       New("mp", "MasterPage", name, NONE, "pl", NONE, {}, 245),
       Add("doc.masterstyles", "mp", 246) >>

\* lines 277-286
make_liststyle(ret, name, line) ==
    << Call("make_liststyle", name, line),
       New("ls", "ListStyle", name, NONE, NONE, NONE, {}, 279),
       Add("doc.automaticstyles", "ls", 280),
       New("level_style", "ListLevelStyleBullet", NONE, NONE, NONE, NONE,
           {<<"level", "1">>, <<"bulletchar", "U+2022">>}, 283),
       Add("ls", "level_style", 284),
       Ret(ret, "ls", 286) >>

\* lines 311-315
make_tablestyle(ret, name, line) ==
    << Call("make_tablestyle", name, line),
       New("ts", "Style", name, "table", NONE, NONE, {}, 313),
       Add("doc.automaticstyles", "ts", 314),
       Ret(ret, "ts", 315) >>

(***************************************************************************)
(* The body of create_odt_ref_doc, section by section, in source order.    *)
(***************************************************************************)
\* lines 33-67
ParagraphStyles ==
    make_parastyle("heading_1_style", "Heading 1", 33)
    \o make_parastyle("heading_2_style", "Heading 2", 34)
    \o make_parastyle("heading_3_style", "Heading 3", 35)
    \o make_parastyle("heading_4_style", "Heading 4", 36)
    \o make_parastyle("heading_5_style", "Heading 5", 37)
    \o make_parastyle("heading_6_style", "Heading 6", 38)
    \o make_parastyle("body_text_style", "Body Text", 40)
    \o make_parastyle("body_text_indent_style", "Body Text Indent", 41)
    \o make_parastyle("preformatted_style", "Preformatted Text", 42)
    \o make_parastyle("quotation_style", "Quotation", 43)
    \o make_parastyle("first_line_indent_style", "First Line Indent", 44)
    \o make_parastyle("list_parastyle", "List", 46)
    \o make_parastyle("list_1_style", "List 1", 47)
    \o make_parastyle("list_2_style", "List 2", 48)
    \o make_parastyle("list_3_style", "List 3", 49)
    \o make_parastyle("list_contents_style", "List Contents", 50)
    \o make_parastyle("index_style", "Index", 52)
    \o make_parastyle("index_heading_style", "Index Heading", 53)
    \o make_parastyle("caption_style", "Caption", 55)
    \o make_parastyle("table_contents_style", "Table Contents", 56)
    \o make_parastyle("footnote_style", "Footnote", 58)
    \o make_parastyle("endnote_style", "Endnote", 59)
    \o make_parastyle("biblio_entry_style", "Bibliography Entry", 60)
    \o make_parastyle("signature_style", "Signature", 61)
    \o make_parastyle("marginalia_style", "Marginalia", 62)
    \o make_parastyle("drop_caps_style", "Drop Caps", 63)
    \o make_parastyle("frame_contents_style", "Frame Contents", 64)
    \o make_parastyle("default_para_style", "Default Style", 67)

\* lines 79-91
CharacterStyles ==
    make_charstyle("default_char_style", "Default Style (Character)", 79)
    \o make_charstyle("emphasis_char_style", "Emphasis", 80)
    \o make_charstyle("strong_char_style", "Strong Emphasis", 81)
    \o make_charstyle("source_text_char_style", "Source Text", 82)
    \o make_charstyle("example_char_style", "Example", 83)
    \o make_charstyle("code_char_style", "Code", 84)
    \o make_charstyle("user_entry_char_style", "User Entry", 85)
    \o make_charstyle("teletype_char_style", "Teletype", 86)
    \o make_charstyle("footnote_char_style", "Footnote Characters", 87)
    \o make_charstyle("endnote_char_style", "Endnote Characters", 88)
    \o make_charstyle("rubies_char_style", "Rubies", 89)
    \o make_charstyle("annotation_char_style", "Annotation", 90)
    \o make_charstyle("citation_char_style", "Citation", 91)

\* lines 98-113
HeadingAndBodyDemo ==
    << AddNew("doc.text", "P", "heading_1_style", "Heading 1: This paragraph demonstrates Heading 1.", 98),
       AddNew("doc.text", "P", "heading_2_style", "Heading 2: This paragraph demonstrates Heading 2.", 99),
       AddNew("doc.text", "P", "heading_3_style", "Heading 3: This paragraph demonstrates Heading 3.", 100),
       AddNew("doc.text", "P", "heading_4_style", "Heading 4: This paragraph demonstrates Heading 4.", 101),
       AddNew("doc.text", "P", "heading_5_style", "Heading 5: This paragraph demonstrates Heading 5.", 102),
       AddNew("doc.text", "P", "heading_6_style", "Heading 6: This paragraph demonstrates Heading 6.", 103),
       AddNew("doc.text", "P", "body_text_style", "Body Text: This paragraph uses the Body Text style.", 106),
       AddNew("doc.text", "P", "body_text_indent_style", "Body Text Indent: This paragraph uses the Body Text Indent style (indented).", 107),
       AddNew("doc.text", "P", "preformatted_style", "Preformatted Text: Typically, spacing is preserved in this style.", 108),
       AddNew("doc.text", "P", "quotation_style", "Quotation: This paragraph demonstrates the Quotation style.", 109),
       AddNew("doc.text", "P", "first_line_indent_style", "First Line Indent: The first line of this paragraph should be indented.", 110),
       AddNew("doc.text", "P", "default_para_style", "Default Style: This paragraph uses the general default style.", 113) >>

\* lines 116-129
CharacterDemo ==
    << New("para", "P", NONE, NONE, NONE, "Character Styles Demonstration: ", {}, 116),
       New("span1", "Span", NONE, NONE, "emphasis_char_style", "Emphasis style, ", {}, 118),
       Add("para", "span1", 119),
       New("span2", "Span", NONE, NONE, "strong_char_style", "Strong Emphasis style, ", {}, 121),
       Add("para", "span2", 122),
       New("span3", "Span", NONE, NONE, "code_char_style", "Code style, ", {}, 124),
       Add("para", "span3", 125),
       New("span4", "Span", NONE, NONE, "citation_char_style", "Citation style.", {}, 127),
       Add("para", "span4", 128),
       Add("doc.text", "para", 129) >>

\* lines 134-148
ListDemo ==
    << New("demo_list", "List", NONE, NONE, "list_parastyle", NONE, {}, 134),
       New("li1", "ListItem", NONE, NONE, NONE, NONE, {}, 135),
       AddNew("li1", "P", "list_1_style", "List item 1 (List 1 style).", 136),
       Add("demo_list", "li1", 137),
       New("li2", "ListItem", NONE, NONE, NONE, NONE, {}, 139),
       AddNew("li2", "P", "list_2_style", "List item 2 (List 2 style).", 140),
       Add("demo_list", "li2", 141),
       New("li3", "ListItem", NONE, NONE, NONE, NONE, {}, 143),
       AddNew("li3", "P", "list_3_style", "List item 3 (List 3 style).", 144),
       Add("demo_list", "li3", 145),
       AddNew("doc.text", "P", "list_contents_style", "Below is a simple list using 'List Contents' for paragraphs:", 147),
       Add("doc.text", "demo_list", 148) >>

\* lines 151-155
IndexAndCaptionDemo ==
    << AddNew("doc.text", "P", "index_heading_style", "Index Heading: This could appear at the start of an index section.", 151),
       AddNew("doc.text", "P", "index_style", "Index: This paragraph demonstrates the Index style.", 152),
       AddNew("doc.text", "P", "caption_style", "Caption: Typically used for describing an image/table.", 155) >>

\* TableDemo with cell2 added to the table instead of the row
TableDemo_cell_in_table ==
    << New("table", "Table", NONE, NONE, NONE, NONE, {}, 158),
       AddNew("table", "TableColumn", NONE, NONE, 160),
       AddNew("table", "TableColumn", NONE, NONE, 161),
       New("row", "TableRow", NONE, NONE, NONE, NONE, {}, 164),
       New("cell1", "TableCell", NONE, NONE, NONE, NONE, {}, 165),
       AddNew("cell1", "P", "table_contents_style", "Table Contents: Cell 1", 166),
       Add("row", "cell1", 167),
       New("cell2", "TableCell", NONE, NONE, NONE, NONE, {}, 169),
       AddNew("cell2", "P", "table_contents_style", "Table Contents: Cell 2", 170),
       Add("table", "cell2", 171),
       Add("table", "row", 173),
       Add("doc.text", "table", 174) >>

\* lines 158-174
TableDemo ==
    << New("table", "Table", NONE, NONE, NONE, NONE, {}, 158),
       AddNew("table", "TableColumn", NONE, NONE, 160),
       AddNew("table", "TableColumn", NONE, NONE, 161),
       New("row", "TableRow", NONE, NONE, NONE, NONE, {}, 164),
       New("cell1", "TableCell", NONE, NONE, NONE, NONE, {}, 165),
       AddNew("cell1", "P", "table_contents_style", "Table Contents: Cell 1", 166),
       Add("row", "cell1", 167),
       New("cell2", "TableCell", NONE, NONE, NONE, NONE, {}, 169),
       AddNew("cell2", "P", "table_contents_style", "Table Contents: Cell 2", 170),
       Add("row", "cell2", 171),
       Add("table", "row", 173),
       Add("doc.text", "table", 174) >>

\* lines 177-195
NotesDemo ==
    << New("footnote_paragraph", "P", NONE, NONE, "footnote_style", "Footnote style paragraph. This paragraph is typically used for footnotes.", {}, 177),
       Add("doc.text", "footnote_paragraph", 178),
       New("footnote_text", "P", NONE, NONE, NONE, "This is a sample footnote text.", {}, 181),
       New("footnote", "Note", NONE, NONE, NONE, NONE, {<<"noteclass", "footnote">>}, 182),
       AddNew("footnote", "NoteCitation", NONE, "1", 183),
       New("footnote_body", "NoteBody", NONE, NONE, NONE, NONE, {}, 184),
       Add("footnote_body", "footnote_text", 185),
       Add("footnote", "footnote_body", 186),
       New("anchored_para", "P", NONE, NONE, NONE, "Some main text that references a footnote", {}, 189),
       Add("anchored_para", "footnote", 190),
       Add("doc.text", "anchored_para", 191),
       New("endnote_paragraph", "P", NONE, NONE, "endnote_style", "Endnote style paragraph. This paragraph is typically used for endnotes.", {}, 194),
       Add("doc.text", "endnote_paragraph", 195) >>

\* lines 200-206
MiscParagraphsDemo ==
    << AddNew("doc.text", "P", "biblio_entry_style", "Bibliography Entry: This paragraph could be used for references or citations.", 200),
       AddNew("doc.text", "P", "signature_style", "Signature: This might be used for signing a document.", 203),
       AddNew("doc.text", "P", "marginalia_style", "Marginalia: Typically, text that might appear in the margin.", 204),
       AddNew("doc.text", "P", "drop_caps_style", "Drop Caps: This style could be used at the start of a chapter.", 205),
       AddNew("doc.text", "P", "frame_contents_style", "Frame Contents: Used inside frames.", 206) >>

\* FrameDemo with the text box filled after the frame is in the document
FrameDemo_fill_late ==
    make_framestyle("frame_style", "Frame Style", 218)
    \o << New("frame", "Frame", NONE, NONE, "frame_style", NONE, {<<"width", "7cm">>, <<"height", "1cm">>}, 221),
       New("tb", "TextBox", NONE, NONE, NONE, NONE, {}, 222),
       Add("frame", "tb", 225),
       Add("doc.text", "frame", 226),
       New("tb_p", "P", NONE, NONE, "frame_contents_style", "Inside a frame (Frame Contents).", {}, 223),
       Add("tb", "tb_p", 224) >>

\* lines 218-226
FrameDemo ==
    make_framestyle("frame_style", "Frame Style", 218)
    \o << New("frame", "Frame", NONE, NONE, "frame_style", NONE, {<<"width", "7cm">>, <<"height", "1cm">>}, 221),
       New("tb", "TextBox", NONE, NONE, NONE, NONE, {}, 222),
       New("tb_p", "P", NONE, NONE, "frame_contents_style", "Inside a frame (Frame Contents).", {}, 223),
       Add("tb", "tb_p", 224),
       Add("frame", "tb", 225),
       Add("doc.text", "frame", 226) >>

\* lines 248-256
PageStyles ==
    make_pagestyle("Default Style (Page)", 248)
    \o make_pagestyle("First Page", 249)
    \o make_pagestyle("Left Page", 250)
    \o make_pagestyle("Right Page", 251)
    \o make_pagestyle("Index Page", 252)
    \o make_pagestyle("Envelope", 253)
    \o make_pagestyle("Landscape", 254)
    \o make_pagestyle("Endnote Page", 255)
    \o make_pagestyle("Footnote Page", 256)

\* lines 259-267
PageBreakDemo ==
    << New("pagebreak_para", "P", NONE, NONE, NONE, "=== Manual page break to 'First Page' style below ===", {}, 259),
       Add("doc.text", "pagebreak_para", 260),
       AddNew("pagebreak_para", "Span", NONE, "\n", 261),
       AddNew("doc.text", "P", NONE, "Now we are on a new page (ideally with 'First Page' style).", 267) >>

\* lines 289-303
ListStyles ==
    make_liststyle("numbering1", "Numbering 1", 289)
    \o make_liststyle("numbering2", "Numbering 2", 290)
    \o make_liststyle("numbering3", "Numbering 3", 291)
    \o make_liststyle("numbering4", "Numbering 4", 292)
    \o make_liststyle("numbering5", "Numbering 5", 293)
    \o make_liststyle("bullet1", "Bullet 1", 295)
    \o make_liststyle("bullet2", "Bullet 2", 296)
    \o make_liststyle("bullet3", "Bullet 3", 297)
    \o make_liststyle("bullet4", "Bullet 4", 298)
    \o make_liststyle("bullet5", "Bullet 5", 299)
    \o make_liststyle("default_list_style", "Default List Style", 301)
    \o << AddNew("doc.text", "P", NONE, "Numbering & Bullet list styles declared (Numbering 1..5, Bullet 1..5).", 303) >>

\* lines 317-329
TableStyles ==
    make_tablestyle("default_table_style", "Default Table Style", 317)
    \o make_tablestyle("academic_table_style", "Academic", 318)
    \o make_tablestyle("elegant_table_style", "Elegant", 319)
    \o make_tablestyle("financial_table_style", "Financial", 320)
    \o make_tablestyle("simple_grid_table_style", "Simple Grid", 321)
    \o make_tablestyle("box_list_table_style", "Box List", 322)
    \o make_tablestyle("blue_table_style", "Blue", 323)
    \o make_tablestyle("yellow_table_style", "Yellow", 324)
    \o make_tablestyle("gray_table_style", "Gray", 325)
    \o make_tablestyle("green_table_style", "Green", 326)
    \o make_tablestyle("orange_table_style", "Orange", 327)
    \o << AddNew("doc.text", "P", NONE, "Additional table styles (Academic, Elegant, Financial, etc.) defined.", 329) >>

\* SaveDoc saving without the suffix argument
SaveDoc_no_suffix ==
    << Save(FALSE, 334),
       PrintCreated(335) >>

\* SaveDoc printing the confirmation before saving
SaveDoc_print_first ==
    << PrintCreated(335),
       Save(TRUE, 334) >>

\* lines 334-335
SaveDoc ==
    << Save(TRUE, 334),
       PrintCreated(335) >>

\* the body with the heading and body paragraphs built before the character styles
Program_content_early ==
    ParagraphStyles \o HeadingAndBodyDemo \o CharacterStyles \o CharacterDemo
    \o ListDemo \o IndexAndCaptionDemo \o TableDemo \o NotesDemo
    \o MiscParagraphsDemo \o FrameDemo \o PageStyles \o PageBreakDemo
    \o ListStyles \o TableStyles \o SaveDoc

\* lines 16-335: the whole body, in source order
Program ==
    ParagraphStyles \o CharacterStyles \o HeadingAndBodyDemo \o CharacterDemo
    \o ListDemo \o IndexAndCaptionDemo \o TableDemo \o NotesDemo
    \o MiscParagraphsDemo \o FrameDemo \o PageStyles \o PageBreakDemo
    \o ListStyles \o TableStyles \o SaveDoc

(***************************************************************************)
(* Elements and the heap.                                                  *)
(***************************************************************************)
Element(tag, name, family, stylename, attrs) ==
    [tag |-> tag, name |-> name, family |-> family, stylename |-> stylename,
     text |-> NONE, attrs |-> attrs, children |-> <<>>, parent |-> 0]

\* the text node that Element.__init__ adds for a text= argument
TextNode(t, p) ==
    [tag |-> "#text", name |-> NONE, family |-> NONE, stylename |-> NONE,
     text |-> t, attrs |-> {}, children |-> <<>>, parent |-> p]

\* a stylename= argument is a Style element; the attribute stored is its name
StyleNameRef(h, e, style) ==
    IF style = NONE THEN NONE ELSE h[e[style]].name

\* the heap after constructing element el with text= text; its id is Len(h) + 1
NewElement(h, el, text) ==
    IF text = NONE \/ text = ""
    THEN Append(h, el)
    ELSE Append(Append(h, [el EXCEPT !.children = <<Len(h) + 2>>]),
                TextNode(text, Len(h) + 1))

\* the heap after the constructor call of statement s
Construct(h, e, s) ==
    NewElement(h, Element(s.tag, s.name, s.family,
                          StyleNameRef(h, e, s.style), s.attrs), s.text)

\* addElement putting the child first
addElement_first(h, p, c) ==
    [h EXCEPT ![p].children = <<c>> \o @, ![c].parent = p]

\* the heap after h[p].addElement(h[c])
addElement(h, p, c) ==
    [h EXCEPT ![p].children = Append(@, c), ![c].parent = p]

Bind(e, v, id) ==
    [x \in (DOMAIN e) \cup {v} |-> IF x = v THEN id ELSE e[x]]

\* OpenDocumentText(): the document's own containers
STYLES == 1
AUTOMATICSTYLES == 2
MASTERSTYLES == 3
TEXT == 4

OpenDocumentText ==
    << Element("office:styles", NONE, NONE, NONE, {}),
       Element("office:automatic-styles", NONE, NONE, NONE, {}),
       Element("office:master-styles", NONE, NONE, NONE, {}),
       Element("office:text", NONE, NONE, NONE, {}) >>

DocEnv ==
    [x \in {"doc.styles", "doc.automaticstyles", "doc.masterstyles", "doc.text"} |->
        CASE x = "doc.styles" -> STYLES
          [] x = "doc.automaticstyles" -> AUTOMATICSTYLES
          [] x = "doc.masterstyles" -> MASTERSTYLES
          [] OTHER -> TEXT]

\* def create_odt_ref_doc(filename="LibreOfficeStylesRefDoc")
DefaultFilename == "LibreOfficeStylesRefDoc"

\* the arguments tried: none, the one of __main__, another name
Args == {NONE, "LibreOfficeStylesRefDoc", "out"}

\* doc.save(outputfile, addsuffix): the name of the file that is written
OutputFile(name, addsuffix) ==
    IF addsuffix THEN name \o ".odt" ELSE name

Message(name) == "Created " \o name \o " successfully."

(***************************************************************************)
(* The interpreter.                                                        *)
(***************************************************************************)
Running == status = "running" /\ pc <= Len(prog)

stmt == prog[pc]

InitWith(p) ==
    /\ prog = p
    /\ pc = 1
    /\ env = DocEnv
    /\ heap = OpenDocumentText
    /\ calls = <<>>
    /\ appends = <<>>
    /\ created = <<>>
    /\ arg \in Args
    /\ filename = IF arg = NONE THEN DefaultFilename ELSE arg
    /\ fs = {}
    /\ stdout = <<>>
    /\ saves = 0
    /\ status = "running"

Init == InitWith(Program)

DoNew ==
    /\ Running /\ stmt.op = "new"
    /\ heap' = Construct(heap, env, stmt)
    /\ env' = Bind(env, stmt.var, Len(heap) + 1)
    /\ created' = Append(created, <<Len(heap) + 1, stmt.text>>)
    /\ pc' = pc + 1
    /\ UNCHANGED <<prog, calls, appends, arg, filename, fs, stdout, saves, status>>

DoAdd ==
    /\ Running /\ stmt.op = "add"
    /\ heap' = addElement(heap, env[stmt.parent], env[stmt.child])
    /\ appends' = Append(appends, <<env[stmt.parent], env[stmt.child]>>)
    /\ pc' = pc + 1
    /\ UNCHANGED <<prog, env, calls, created, arg, filename, fs, stdout, saves, status>>

DoAddNew ==
    /\ Running /\ stmt.op = "add_new"
    /\ heap' = addElement(Construct(heap, env, stmt), env[stmt.parent], Len(heap) + 1)
    /\ created' = Append(created, <<Len(heap) + 1, stmt.text>>)
    /\ appends' = Append(appends, <<env[stmt.parent], Len(heap) + 1>>)
    /\ pc' = pc + 1
    /\ UNCHANGED <<prog, env, calls, arg, filename, fs, stdout, saves, status>>

DoCall ==
    /\ Running /\ stmt.op = "call"
    /\ calls' = Append(calls, <<stmt.tag, stmt.name>>)
    /\ pc' = pc + 1
    /\ UNCHANGED <<prog, env, heap, appends, created, arg, filename, fs, stdout,
                   saves, status>>

DoRet ==
    /\ Running /\ stmt.op = "ret"
    /\ env' = Bind(env, stmt.var, env[stmt.child])
    /\ pc' = pc + 1
    /\ UNCHANGED <<prog, heap, calls, appends, created, arg, filename, fs, stdout,
                   saves, status>>

\* doc.save either writes the file and returns, or raises; nothing catches it
DoSave ==
    /\ Running /\ stmt.op = "save"
    /\ saves' = saves + 1
    /\ LET outputfile == OutputFile(filename, <<"addsuffix", TRUE>> \in stmt.attrs) IN
         \/ /\ fs' = fs \cup {outputfile}
            /\ pc' = pc + 1
            /\ status' = status
         \/ /\ fs' \in {fs, fs \cup {outputfile}}
            /\ pc' = pc
            /\ status' = "raised"
    /\ UNCHANGED <<prog, env, heap, calls, appends, created, arg, filename, stdout>>

DoPrint ==
    /\ Running /\ stmt.op = "print"
    /\ stdout' = Append(stdout, Message(filename))
    /\ pc' = pc + 1
    /\ UNCHANGED <<prog, env, heap, calls, appends, created, arg, filename, fs,
                   saves, status>>

DoReturn ==
    /\ status = "running" /\ pc = Len(prog) + 1
    /\ status' = "done"
    /\ UNCHANGED <<prog, pc, env, heap, calls, appends, created, arg, filename, fs,
                   stdout, saves>>

Next ==
    \/ DoNew \/ DoAdd \/ DoAddNew \/ DoCall \/ DoRet \/ DoSave \/ DoPrint
    \/ DoReturn

Spec == Init /\ [][Next]_vars

(***************************************************************************)
(* A caller of the two style helpers of lines 27-31 and 73-77 with         *)
(* arbitrary names: up to MaxCalls registrations, one use of the last      *)
(* style registered, then the save and the confirmation.                   *)
(***************************************************************************)
MaxCalls == 3

RegHelpers == {"make_parastyle", "make_charstyle"}
RegNames == {"Heading 1", "Body Text"}

RegCall(c) ==
    IF c[1] = "make_parastyle"
    THEN make_parastyle("s", c[2], 33)
    ELSE make_charstyle("s", c[2], 79)

RECURSIVE Registrations(_, _)
Registrations(cs, i) ==
    IF i > Len(cs) THEN <<>> ELSE RegCall(cs[i]) \o Registrations(cs, i + 1)

UseStyle(c) ==
    IF c[1] = "make_parastyle"
    THEN << AddNew("doc.text", "P", "s", "Heading 1: This paragraph demonstrates Heading 1.", 98) >>
    ELSE << New("para", "P", NONE, NONE, NONE, "Character Styles Demonstration: ", {}, 116),
            New("span1", "Span", NONE, NONE, "s", "Emphasis style, ", {}, 118),
            Add("para", "span1", 119),
            Add("doc.text", "para", 129) >>

Driver(cs) == Registrations(cs, 1) \o UseStyle(cs[Len(cs)]) \o SaveDoc

DriverPrograms ==
    { Driver(cs) : cs \in UNION { [1..k -> RegHelpers \X RegNames] : k \in 1..MaxCalls } }

InitReg == \E p \in DriverPrograms : InitWith(p)

SpecReg == InitReg /\ [][Next]_vars

(***************************************************************************)
(* What the claims speak of.                                               *)
(***************************************************************************)
Ids == 1..Len(heap)

\* the entries of the document's style collections
StyleIds ==
    { id \in Ids : heap[id].parent \in {STYLES, AUTOMATICSTYLES, MASTERSTYLES} }

\* the family of a style entry: Style carries it, the other classes are one each
FamilyOf(el) ==
    CASE el.tag = "Style" -> el.family
      [] el.tag = "ListStyle" -> "list"
      [] el.tag = "MasterPage" -> "page"
      [] el.tag = "PageLayout" -> "page-layout"
      [] OTHER -> NONE

Key(el) == <<el.name, FamilyOf(el)>>

\* the (name, family) a helper call registers
HelperFamily(fn) ==
    CASE fn = "make_parastyle" -> "paragraph"
      [] fn = "make_charstyle" -> "text"
      [] fn = "make_framestyle" -> "graphic"
      [] fn = "make_tablestyle" -> "table"
      [] fn = "make_liststyle" -> "list"
      [] fn = "make_pagestyle" -> "page"
      [] OTHER -> NONE

CallKey(c) == <<c[2], HelperFamily(c[1])>>

EntriesFor(k) == { id \in StyleIds : Key(heap[id]) = k }

CallsFor(k) == { i \in 1..Len(calls) : CallKey(calls[i]) = k }

\* the document is about to be, or has been, handed to doc.save
Handed == saves > 0 \/ (Running /\ stmt.op = "save")

\* the content classes that take a stylename= in the script
StyledTags == {"P", "Span", "List", "Frame"}

StyledNodes == { id \in Ids : heap[id].tag \in StyledTags /\ heap[id].stylename # NONE }

\* the style entries a node's style reference resolves to
Resolves(id) == { s \in StyleIds : heap[s].name = heap[id].stylename }

\* the family a node of each class takes its style from
NodeFamily(tag) ==
    CASE tag = "P" -> "paragraph"
      [] tag = "Span" -> "text"
      [] tag = "List" -> "list"
      [] tag = "Frame" -> "graphic"
      [] OTHER -> NONE

\* the children given to element id by addElement calls, in call order
Appended(id) ==
    LET Test(x) == x[1] = id
        s == SelectSeq(appends, Test)
    IN [i \in 1..Len(s) |-> s[i][2]]

IsPrefix(a, b) ==
    Len(a) <= Len(b) /\ \A i \in 1..Len(a) : a[i] = b[i]

SameAttributes(a, b) ==
    /\ a.tag = b.tag /\ a.name = b.name /\ a.family = b.family
    /\ a.stylename = b.stylename /\ a.text = b.text /\ a.attrs = b.attrs
    /\ a.parent = b.parent

(***************************************************************************)
(* The claims.                                                             *)
(***************************************************************************)

\* C1: when the document is handed to doc.save, every (name, family) a helper
\* call registered has exactly one entry in the style collections, and no two
\* entries share a (name, family).
C1_StylesOnce ==
    Handed =>
        /\ \A i \in 1..Len(calls) : Cardinality(EntriesFor(CallKey(calls[i]))) = 1
        /\ \A a, b \in StyleIds : a # b => Key(heap[a]) # Key(heap[b])

C1_Witness ==
    /\ Handed
    /\ Len(calls) > 1
    /\ \E i \in 1..Len(calls) : calls[i][1] = "make_pagestyle"
    /\ \E i \in 1..Len(calls) : calls[i][1] = "make_tablestyle"
    /\ Cardinality(StyleIds) > Len(calls)

\* C2: in every state, the style reference of every P, Span, List and Frame
\* constructed so far resolves to exactly one entry of the style collections:
\* the style was registered before the node was constructed.
C2_RefsResolve ==
    \A id \in StyledNodes : Cardinality(Resolves(id)) = 1

C2_Witness ==
    \E id \in StyledNodes :
        /\ heap[id].tag = "P" /\ heap[id].stylename = "Heading 1"
        /\ heap[id].parent = TEXT
        /\ \E s \in Resolves(id) : Key(heap[s]) = <<"Heading 1", "paragraph">>

\* C3 as stated: once the document has content, no helper registers a style.
C3_Original ==
    [][heap[TEXT].children # <<>> => calls' = calls]_vars

\* C3 amended: paragraph and character styles are all registered before the
\* first content node is appended (the other families are registered later);
\* after doc.save is entered nothing is registered, constructed or appended
\* and doc.save is not entered again; a run that returns has saved once.
C3_Phases ==
    [][/\ (heap[TEXT].children # <<>> /\ calls' # calls
             => calls'[Len(calls')][1] \notin {"make_parastyle", "make_charstyle"})
       /\ (saves > 0 => /\ heap' = heap /\ calls' = calls /\ appends' = appends
                        /\ created' = created /\ saves' = saves)
       /\ (status' = "done" => saves' = 1)]_vars

C3_Witness ==
    /\ status = "done" /\ saves = 1
    /\ heap[TEXT].children # <<>>
    /\ \E i \in 1..Len(calls) : calls[i][1] = "make_framestyle"

C5_Original ==
    status = "done" =>
        /\ fs = {filename}
        /\ stdout = <<Message(filename)>>
        /\ filename = IF arg = NONE THEN DefaultFilename ELSE arg

\* C5 amended: a run that returns has written one file, at the name given
\* (the default without an argument) with ".odt" appended, and printed the
\* name without the suffix.
C5_SuffixedName ==
    status = "done" =>
        /\ fs = {filename \o ".odt"}
        /\ stdout = <<Message(filename)>>
        /\ filename = IF arg = NONE THEN DefaultFilename ELSE arg

C5_Witness ==
    /\ status = "done" /\ arg = NONE
    /\ fs = {"LibreOfficeStylesRefDoc.odt"}
    /\ stdout = <<"Created LibreOfficeStylesRefDoc successfully.">>

\* C6: doc.save is entered at most once; if it raises, the run ends with the
\* exception and nothing printed; if the run returns, the confirmation was
\* printed exactly once, after the save returned.
C6_ConfirmIffWritten ==
    /\ saves <= 1
    /\ Len(stdout) <= 1
    /\ (stdout # <<>> => saves = 1 /\ status # "raised")
    /\ (status = "raised" => stdout = <<>>)
    /\ (status = "done" => Len(stdout) = 1 /\ OutputFile(filename, TRUE) \in fs)

C6_Witness ==
    status = "raised" /\ saves = 1 /\ stdout = <<>>

\* C7 as stated: an element that has a parent never changes again.
C7_Original ==
    [][\A id \in Ids : heap[id].parent # 0 => heap'[id] = heap[id]]_vars

\* C7 amended: no element is ever removed, and an element that has a parent
\* keeps its attributes, text and parent; children are still appended, one
\* at a time and at the end, to a PageLayout, a ListStyle and a P that
\* already have a parent; nothing changes after doc.save is entered.
C7_AppendOnly ==
    [][/\ Len(heap') >= Len(heap)
       /\ \A id \in Ids :
              heap[id].parent # 0 =>
                  /\ SameAttributes(heap[id], heap'[id])
                  /\ IsPrefix(heap[id].children, heap'[id].children)
                  /\ (heap'[id].children # heap[id].children =>
                          /\ heap[id].tag \in {"PageLayout", "ListStyle", "P"}
                          /\ Len(heap'[id].children) = Len(heap[id].children) + 1)
       /\ (saves > 0 => heap' = heap)]_vars

C7_Witness ==
    \E id \in Ids :
        /\ heap[id].tag = "Span" /\ heap[id].stylename = NONE
        /\ heap[id].parent # 0
        /\ heap[heap[id].parent].parent = TEXT
        /\ Len(heap[heap[id].parent].children) = 2

C10_FamiliesMatch ==
    \A id \in StyledNodes :
        \A s \in Resolves(id) : FamilyOf(heap[s]) = NodeFamily(heap[id].tag)

====
